---- MODULE Spec2Model ----
(***************************************************************************)
(* A model of flatbrain (bin/index.js): the `flatten` and `concat`         *)
(* commands over a file tree.                                              *)
(*                                                                         *)
(* Strings are sequences of one-character strings, so that the string      *)
(* operations of the code (separator replacement, path.extname, slice,     *)
(* split, endsWith) are computed character by character.  A path is the    *)
(* sequence of its components below the target root; <<>> is the root.     *)
(* The file system is a function from the paths that exist to their node.  *)
(***************************************************************************)
EXTENDS Integers, Sequences, FiniteSets, TLC

(***************************************************************************)
(* Bounds of the model.                                                    *)
(***************************************************************************)
MaxNodes == 3
MaxRuns == 2

(***************************************************************************)
(* Characters and the string literals of the source.                       *)
(***************************************************************************)
SEP == "/"
CARET == "^"
DOT == "."
NL == "\n"

FLATBRAIN == <<"f", "l", "a", "t", "b", "r", "a", "i", "n">>
DOTGIT == <<".", "g", "i", "t">>
GITIGNORE == <<".", "g", "i", "t", "i", "g", "n", "o", "r", "e">>
FLATTENED == <<"f", "l", "a", "t", "t", "e", "n", "e", "d">>
CONCAT == <<"c", "o", "n", "c", "a", "t">>
ALL_TXT == <<"a", "l", "l", ".", "t", "x", "t">>
DOT_TXT == <<".", "t", "x", "t">>
YARN_LOCK == <<"y", "a", "r", "n", ".", "l", "o", "c", "k">>
PACKAGE_LOCK_JSON ==
    <<"p", "a", "c", "k", "a", "g", "e", "-", "l", "o", "c", "k", ".", "j", "s", "o", "n">>
PNPM_LOCK_YAML ==
    <<"p", "n", "p", "m", "-", "l", "o", "c", "k", ".", "y", "a", "m", "l">>

DEFAULT_LOCKFILES == {YARN_LOCK, PACKAGE_LOCK_JSON, PNPM_LOCK_YAML}

HEADER_OPEN == <<"\n", "=", "=", "=", " ">>
HEADER_CLOSE == <<" ", "=", "=", "=", "\n">>

(***************************************************************************)
(* String helpers (JavaScript String methods, on character sequences).     *)
(***************************************************************************)
RECURSIVE Flat(_)
Flat(ss) == IF ss = <<>> THEN <<>> ELSE Head(ss) \o Flat(Tail(ss))

RECURSIVE LastIndexOf(_, _, _)
LastIndexOf(s, c, i) ==
    IF i = 0 THEN 0
    ELSE IF s[i] = c THEN i
    ELSE LastIndexOf(s, c, i - 1)

EndsWith(s, c) == Len(s) > 0 /\ s[Len(s)] = c

\* s.slice(0, -n) for n >= 0: a negative end counts from the end of the
\* string, and -0 is 0, so slice(0, -0) is the empty string.
SliceOff(s, n) ==
    IF n = 0 THEN <<>>
    ELSE IF n >= Len(s) THEN <<>>
    ELSE SubSeq(s, 1, Len(s) - n)

\* s.replace(new RegExp('\\' + from, 'g'), to)
RECURSIVE ReplaceAll(_, _, _)
ReplaceAll(s, from, to) ==
    IF s = <<>> THEN <<>>
    ELSE <<IF Head(s) = from THEN to ELSE Head(s)>> \o ReplaceAll(Tail(s), from, to)

\* s.split(c): the pieces between the occurrences of c (always at least one).
RECURSIVE SplitFrom(_, _, _)
SplitFrom(s, c, cur) ==
    IF s = <<>> THEN <<cur>>
    ELSE IF Head(s) = c THEN <<cur>> \o SplitFrom(Tail(s), c, <<>>)
    ELSE SplitFrom(Tail(s), c, Append(cur, Head(s)))

Split(s, c) == SplitFrom(s, c, <<>>)

(***************************************************************************)
(* node:path on POSIX, for paths below the root.                           *)
(***************************************************************************)
\* path.join(dirPath, name)
Join(dirPath, name) == Append(dirPath, name)

Parent(p) == SubSeq(p, 1, Len(p) - 1)

BaseName(p) == p[Len(p)]

IsPrefix(p, q) == Len(p) <= Len(q) /\ SubSeq(q, 1, Len(p)) = p

\* path.relative(rootDir, fullPath): the components joined by path.sep.
RECURSIVE Relative(_)
Relative(p) ==
    IF p = <<>> THEN <<>>
    ELSE IF Len(p) = 1 THEN p[1]
    ELSE p[1] \o <<SEP>> \o Relative(Tail(p))

\* path.extname(s): from the last '.' of the last path segment to the end;
\* empty when there is no '.', or when the '.' is the segment's first
\* character, or when the segment is '..'.
ExtName(s) ==
    LET start == LastIndexOf(s, SEP, Len(s))
        base == SubSeq(s, start + 1, Len(s))
        dot == LastIndexOf(base, DOT, Len(base))
    IN IF dot <= 1 THEN <<>>
       ELSE IF base = <<".", ".">> THEN <<>>
       ELSE SubSeq(base, dot, Len(base))

(***************************************************************************)
(* State.                                                                  *)
(*   fs         the file tree below (and including) the target root        *)
(*   listOrder  the order in which the operating system lists names        *)
(*   options    the command line options of the invocations                *)
(*   budget     how many invocations the user makes                        *)
(*   history    one record per finished invocation, oldest first           *)
(***************************************************************************)
VARIABLES fs, listOrder, options, budget, history

vars == <<fs, listOrder, options, budget, history>>

\* A node: a directory or a regular file; readable is FALSE when the
\* process may not list (a directory) or read (a file) it.
DirNode == [kind |-> "dir", content |-> <<>>, readable |-> TRUE]

FileNode(content) == [kind |-> "file", content |-> content, readable |-> TRUE]

(***************************************************************************)
(* node:fs.  A machine m = [fs, ok, log] threads the file system through   *)
(* the calls of one invocation: ok turns FALSE when a call throws, and     *)
(* every later call is then skipped (the exception is never caught).  log  *)
(* records the calls that changed the file system, in order.               *)
(***************************************************************************)
existsSync(fsys, p) == p \in DOMAIN fsys

isDirectory(fsys, p) == fsys[p].kind = "dir"

isFile(fsys, p) == fsys[p].kind = "file"

Children(fsys, dirPath) ==
    {BaseName(q) : q \in {x \in DOMAIN fsys : Len(x) = Len(dirPath) + 1 /\ IsPrefix(dirPath, x)}}

RECURSIVE SetToSeq(_)
SetToSeq(S) ==
    IF S = {} THEN <<>>
    ELSE LET x == CHOOSE y \in S : TRUE IN <<x>> \o SetToSeq(S \ {x})

\* fs.readdirSync(dirPath, { withFileTypes: true }): the names in the
\* operating system's listing order.
readdirSync(fsys, dirPath) ==
    LET names == Children(fsys, dirPath)
        Listed(n) == n \in names
        known == SelectSeq(listOrder, Listed)
    IN known \o SetToSeq(names \ {listOrder[i] : i \in DOMAIN listOrder})

Throw(m) == [m EXCEPT !.ok = FALSE]

mkdirSync(m, p) ==
    IF ~m.ok THEN m
    ELSE IF \/ existsSync(m.fs, p)
            \/ ~existsSync(m.fs, Parent(p))
            \/ ~isDirectory(m.fs, Parent(p))
    THEN Throw(m)
    ELSE [m EXCEPT !.fs = (p :> DirNode) @@ @,
                   !.log = Append(@, <<"mkdir", p>>)]

Without(fsys, p) == [q \in {x \in DOMAIN fsys : ~IsPrefix(p, x)} |-> fsys[q]]

\* fs.rmSync(p, { recursive: true, force: true })
rmSyncRecursive(m, p) ==
    IF ~m.ok THEN m
    ELSE [m EXCEPT !.fs = Without(@, p),
                   !.log = Append(@, <<"rm", p>>)]

\* fs.rmSync(p): a directory is refused.
rmSync(m, p) ==
    IF ~m.ok THEN m
    ELSE IF ~existsSync(m.fs, p) \/ isDirectory(m.fs, p) THEN Throw(m)
    ELSE [m EXCEPT !.fs = Without(@, p),
                   !.log = Append(@, <<"rm", p>>)]

\* fs.copyFileSync(src, dest): dest is created or overwritten.
copyFileSync(m, src, dest) ==
    IF ~m.ok THEN m
    ELSE IF \/ ~existsSync(m.fs, src)
            \/ isDirectory(m.fs, src)
            \/ ~m.fs[src].readable
            \/ ~existsSync(m.fs, Parent(dest))
            \/ ~isDirectory(m.fs, Parent(dest))
            \/ (existsSync(m.fs, dest) /\ isDirectory(m.fs, dest))
    THEN Throw(m)
    ELSE [m EXCEPT !.fs = (dest :> FileNode(m.fs[src].content)) @@ @,
                   !.log = Append(@, <<"copy", src, dest>>)]

(***************************************************************************)
(* The `ignore` package (gitignore matching), as far as the patterns of    *)
(* the model need it: blank lines and comments are dropped, '!' negates,   *)
(* a trailing '/' restricts a pattern to directories, '*' matches any run  *)
(* of characters within one path segment, a pattern without an inner '/'   *)
(* is matched against the last segment of the tested path, the last        *)
(* matching pattern decides, and a path below an ignored directory is      *)
(* ignored whatever the patterns say about the path itself.                *)
(***************************************************************************)
IsPattern(line) == line # <<>> /\ line[1] # "#"

Rule(line) ==
    LET negative == line[1] = "!"
        body == IF negative THEN Tail(line) ELSE line
        dirOnly == EndsWith(body, SEP)
    IN [negative |-> negative,
        dirOnly |-> dirOnly,
        glob |-> IF dirOnly THEN SubSeq(body, 1, Len(body) - 1) ELSE body]

RECURSIVE GlobMatch(_, _)
GlobMatch(g, s) ==
    IF g = <<>> THEN s = <<>>
    ELSE IF Head(g) = "*"
    THEN GlobMatch(Tail(g), s) \/ (s # <<>> /\ Head(s) # SEP /\ GlobMatch(g, Tail(s)))
    ELSE s # <<>> /\ Head(s) = Head(g) /\ GlobMatch(Tail(g), Tail(s))

\* One rule against the segments of a path; asDir: the path is tested as
\* a directory (the package tests parent paths with a trailing '/').
RuleMatches(rule, segments, asDir) ==
    /\ rule.dirOnly => asDir
    /\ GlobMatch(rule.glob, segments[Len(segments)])

RECURSIVE TestOne(_, _, _, _)
TestOne(rules, segments, asDir, ignored) ==
    IF rules = <<>> THEN ignored
    ELSE TestOne(Tail(rules), segments, asDir,
                 IF RuleMatches(Head(rules), segments, asDir)
                 THEN ~Head(rules).negative
                 ELSE ignored)

\* ig.ignores(relativePath)
Ignores(ig, relativePath) ==
    LET segments == Split(relativePath, SEP)
    IN \E i \in 1..Len(segments) :
          TestOne(ig, SubSeq(segments, 1, i), i < Len(segments), FALSE)

RECURSIVE Rules(_)
Rules(lines) ==
    IF lines = <<>> THEN <<>>
    ELSE IF IsPattern(Head(lines)) THEN <<Rule(Head(lines))>> \o Rules(Tail(lines))
    ELSE Rules(Tail(lines))

GitignorePath == Join(<<>>, GITIGNORE)

\* loadGitignore(rootDir): [ok, ig]; reading a directory throws.
loadGitignore(fsys) ==
    IF existsSync(fsys, GitignorePath)
    THEN IF isDirectory(fsys, GitignorePath)
         THEN [ok |-> FALSE, ig |-> <<>>]
         ELSE [ok |-> TRUE, ig |-> Rules(Split(fsys[GitignorePath].content, NL))]
    ELSE [ok |-> TRUE, ig |-> <<>>]

(***************************************************************************)
(* walkDirectory.  The three tests a directory entry goes through, in the  *)
(* order of the code, then the walk itself.  The accumulator holds the     *)
(* files collected so far and the directories listed so far; ok turns      *)
(* FALSE when readdirSync throws, which ends the walk.                     *)
(***************************************************************************)
\* A slip: the name reserved by the earlier layout, where the output
\* directory was <root>/flattened.
StructuralSkipFlattened(name) == name = FLATTENED \/ name = DOTGIT

\* entry.name === 'flatbrain' || entry.name === '.git'
StructuralSkip(name) == name = FLATBRAIN \/ name = DOTGIT

\* A slip: the directory names are looked up by relative path, which
\* excludes a named directory only at the top level.
NameExcludedAtTopOnly(fsys, fullPath, name, excludeDirs, excludeFiles) ==
    \/ isDirectory(fsys, fullPath) /\ Relative(fullPath) \in excludeDirs
    \/ isFile(fsys, fullPath) /\ name \in excludeFiles

\* the user named this directory / file
NameExcluded(fsys, fullPath, name, excludeDirs, excludeFiles) ==
    \/ isDirectory(fsys, fullPath) /\ name \in excludeDirs
    \/ isFile(fsys, fullPath) /\ name \in excludeFiles

\* A slip: the entry's name is tested, not its root-relative path.
GitignoreExcludedByName(ig, relativePath) ==
    LET segments == Split(relativePath, SEP)
    IN Ignores(ig, segments[Len(segments)])

\* .gitignore says so
GitignoreExcluded(ig, relativePath) == Ignores(ig, relativePath)

\* The last pattern that matches the path's last segment is a negation.
Unignored(ig, relativePath) ==
    LET segments == Split(relativePath, SEP)
        hits == {k \in DOMAIN ig : GlobMatch(ig[k].glob, segments[Len(segments)])}
    IN hits # {} /\ ig[CHOOSE k \in hits : \A j \in hits : j <= k].negative

\* A slip: a '!' pattern of .gitignore brings back an entry excluded by name.
SkippedUnlessNegated(fsys, fullPath, name, ig, excludeDirs, excludeFiles) ==
    \/ StructuralSkip(name)
    \/ /\ NameExcluded(fsys, fullPath, name, excludeDirs, excludeFiles)
       /\ ~Unignored(ig, Relative(fullPath))
    \/ GitignoreExcluded(ig, Relative(fullPath))

Skipped(fsys, fullPath, name, ig, excludeDirs, excludeFiles) ==
    \/ StructuralSkip(name)
    \/ NameExcluded(fsys, fullPath, name, excludeDirs, excludeFiles)
    \/ GitignoreExcluded(ig, Relative(fullPath))

RECURSIVE walkDirectory(_, _, _, _, _, _)
RECURSIVE walkEntries(_, _, _, _, _, _, _)
walkDirectory(fsys, dirPath, acc, ig, excludeDirs, excludeFiles) ==
    IF ~acc.ok THEN acc
    ELSE IF ~fsys[dirPath].readable THEN [acc EXCEPT !.ok = FALSE]
    ELSE walkEntries(fsys, dirPath, readdirSync(fsys, dirPath),
                     [acc EXCEPT !.listed = Append(@, dirPath)],
                     ig, excludeDirs, excludeFiles)

walkEntries(fsys, dirPath, entries, acc, ig, excludeDirs, excludeFiles) ==
    IF entries = <<>> \/ ~acc.ok THEN acc
    ELSE LET name == Head(entries)
             fullPath == Join(dirPath, name)
             next ==
                IF Skipped(fsys, fullPath, name, ig, excludeDirs, excludeFiles)
                THEN acc
                ELSE IF isDirectory(fsys, fullPath)
                THEN walkDirectory(fsys, fullPath, acc, ig, excludeDirs, excludeFiles)
                ELSE [acc EXCEPT !.files = Append(@, fullPath)]
         IN walkEntries(fsys, dirPath, Tail(entries), next, ig, excludeDirs, excludeFiles)

EmptyWalk == [files |-> <<>>, listed |-> <<>>, ok |-> TRUE]

(***************************************************************************)
(* flatten.                                                                *)
(***************************************************************************)
\* A slip: String.replace with a string pattern replaces the first match only.
getFlattenedFileNameFirst(filePath) ==
    LET relative == Relative(filePath)
        at == {k \in DOMAIN relative : relative[k] = SEP}
    IN IF at = {} THEN relative
       ELSE [relative EXCEPT ![CHOOSE k \in at : \A j \in at : k <= j] = CARET]

\* getFlattenedFileName(filePath, rootDir)
getFlattenedFileName(filePath) == ReplaceAll(Relative(filePath), SEP, CARET)

\* The destination name of one walked file: the flattened name, its
\* extension replaced by .txt when toTxtExtensions has it.
DestName(filePath, toTxtExtensions) ==
    LET flattenedFileName == getFlattenedFileName(filePath)
        ext == ExtName(flattenedFileName)
    IN IF ext \in toTxtExtensions
       THEN SliceOff(flattenedFileName, Len(ext)) \o DOT_TXT
       ELSE flattenedFileName

flatbrainDir == Join(<<>>, FLATBRAIN)

flattenedDir == Join(flatbrainDir, FLATTENED)

concatDir == Join(flatbrainDir, CONCAT)

RECURSIVE CopyAll(_, _, _)
CopyAll(m, filePaths, toTxtExtensions) ==
    IF filePaths = <<>> THEN m
    ELSE CopyAll(copyFileSync(m, Head(filePaths),
                              Join(flattenedDir, DestName(Head(filePaths), toTxtExtensions))),
                 Tail(filePaths), toTxtExtensions)

\* The target exists and is a directory.
ValidRoot(fsys) == existsSync(fsys, <<>>) /\ isDirectory(fsys, <<>>)

\* A slip: the error is reported and the function returns, with no exit code.
ReturnOnly(fsys) ==
    [fs |-> fsys, exitCode |-> 0, filePaths |-> <<>>, listed |-> <<>>, log |-> <<>>]

Exit1(fsys) ==
    [fs |-> fsys, exitCode |-> 1, filePaths |-> <<>>, listed |-> <<>>, log |-> <<>>]

\* A slip: an existing flatbrain/flattened is kept as it is.
PrepareFlattenedKeep(m) ==
    LET m1 == IF existsSync(m.fs, flatbrainDir) THEN m ELSE mkdirSync(m, flatbrainDir)
    IN IF existsSync(m1.fs, flattenedDir) THEN m1 ELSE mkdirSync(m1, flattenedDir)

\* Ensure a fresh flatbrain/flattened directory.
PrepareFlattened(m) ==
    LET m1 == IF existsSync(m.fs, flatbrainDir)
              THEN IF existsSync(m.fs, flattenedDir)
                   THEN rmSyncRecursive(m, flattenedDir)
                   ELSE m
              ELSE mkdirSync(m, flatbrainDir)
    IN mkdirSync(m1, flattenedDir)

\* A slip: a directory that cannot be listed ends the walk, and the files
\* found so far are returned.
WalkLenient(m, ig, excludeDirs, excludeFiles) ==
    IF m.ok
    THEN [walkDirectory(m.fs, <<>>, EmptyWalk, ig, excludeDirs, excludeFiles) EXCEPT !.ok = TRUE]
    ELSE [EmptyWalk EXCEPT !.ok = FALSE]

Walk(m, ig, excludeDirs, excludeFiles) ==
    IF m.ok
    THEN walkDirectory(m.fs, <<>>, EmptyWalk, ig, excludeDirs, excludeFiles)
    ELSE [EmptyWalk EXCEPT !.ok = FALSE]

flattenProject(fsys, excludeDirs, excludeFiles, toTxtExtensions) ==
    IF ~ValidRoot(fsys) THEN Exit1(fsys)
    ELSE LET g == loadGitignore(fsys)
             m0 == [fs |-> fsys, ok |-> g.ok, log |-> <<>>]
             m1 == PrepareFlattened(m0)
             w == Walk(m1, g.ig, excludeDirs, excludeFiles)
             m2 == IF w.ok THEN CopyAll(m1, w.files, toTxtExtensions) ELSE Throw(m1)
         IN [fs |-> m2.fs,
             exitCode |-> IF m2.ok THEN 0 ELSE 1,
             filePaths |-> IF w.ok THEN w.files ELSE <<>>,
             listed |-> w.listed,
             log |-> m2.log]

(***************************************************************************)
(* concat.                                                                 *)
(***************************************************************************)
\* The text of err.message when a file cannot be read.
ERR_MESSAGE == <<"E", "A", "C", "C", "E", "S">>

ERROR_OPEN == <<"[", "E", "r", "r", "o", "r", " ", "r", "e", "a", "d", "i", "n", "g", " ",
                "f", "i", "l", "e", ":", " ">>

ERROR_CLOSE == <<"]", "\n">>

\* A slip: the newline after the content is written unconditionally.
BlockAlwaysNewline(fsys, filePath) ==
    LET relative == Relative(filePath)
        header == HEADER_OPEN \o relative \o HEADER_CLOSE
    IN IF existsSync(fsys, filePath) /\ isFile(fsys, filePath) /\ fsys[filePath].readable
       THEN header \o fsys[filePath].content \o <<NL>>
       ELSE header \o ERROR_OPEN \o ERR_MESSAGE \o ERROR_CLOSE

\* A slip: a file that cannot be read gets its header and nothing else.
BlockNoMarker(fsys, filePath) ==
    LET relative == Relative(filePath)
        header == HEADER_OPEN \o relative \o HEADER_CLOSE
    IN IF existsSync(fsys, filePath) /\ isFile(fsys, filePath) /\ fsys[filePath].readable
       THEN header \o fsys[filePath].content
              \o (IF EndsWith(fsys[filePath].content, NL) THEN <<>> ELSE <<NL>>)
       ELSE header

\* What the loop writes to the stream for one walked file.
Block(fsys, filePath) ==
    LET relative == Relative(filePath)
        header == HEADER_OPEN \o relative \o HEADER_CLOSE
        content == fsys[filePath].content
    IN IF existsSync(fsys, filePath) /\ isFile(fsys, filePath) /\ fsys[filePath].readable
       THEN header \o content \o (IF EndsWith(content, NL) THEN <<>> ELSE <<NL>>)
       ELSE header \o ERROR_OPEN \o ERR_MESSAGE \o ERROR_CLOSE

RECURSIVE Blocks(_, _)
Blocks(fsys, filePaths) ==
    IF filePaths = <<>> THEN <<>>
    ELSE Block(fsys, Head(filePaths)) \o Blocks(fsys, Tail(filePaths))

\* Ensure flatbrain and flatbrain/concat exist; what concat holds stays.
PrepareConcat(m) ==
    LET m1 == IF ~existsSync(m.fs, flatbrainDir) THEN mkdirSync(m, flatbrainDir) ELSE m
    IN IF existsSync(m1.fs, concatDir) THEN m1 ELSE mkdirSync(m1, concatDir)

\* fs.createWriteStream(outPath, { flags: 'a' }), the writes, and end():
\* the file is created when missing and the text is appended to it.
WriteStream(m, outPath, text) ==
    IF ~m.ok THEN m
    ELSE IF \/ ~existsSync(m.fs, Parent(outPath))
            \/ ~isDirectory(m.fs, Parent(outPath))
            \/ (existsSync(m.fs, outPath) /\ isDirectory(m.fs, outPath))
    THEN Throw(m)
    ELSE LET old == IF existsSync(m.fs, outPath) THEN m.fs[outPath].content ELSE <<>>
         IN [m EXCEPT !.fs = (outPath :> FileNode(old \o text)) @@ @,
                      !.log = Append(@, <<"write", outPath>>)]

\* A slip: the earlier output file is left in place.
KeepOld(m, outPath) == m

\* If the file already exists, remove it first.
RemoveOld(m, outPath) ==
    IF m.ok /\ existsSync(m.fs, outPath) THEN rmSync(m, outPath) ELSE m

concatenateFiles(fsys, excludeDirs, excludeFiles, outputFile) ==
    IF ~ValidRoot(fsys) THEN Exit1(fsys)
    ELSE LET g == loadGitignore(fsys)
             m0 == [fs |-> fsys, ok |-> g.ok, log |-> <<>>]
             m1 == PrepareConcat(m0)
             outPath == Join(concatDir, IF outputFile = <<>> THEN ALL_TXT ELSE outputFile)
             w == Walk(m1, g.ig, excludeDirs, excludeFiles)
             m2 == IF w.ok THEN RemoveOld(m1, outPath) ELSE Throw(m1)
             m3 == WriteStream(m2, outPath, Blocks(m2.fs, w.files))
         IN [fs |-> m3.fs,
             exitCode |-> IF m3.ok THEN 0 ELSE 1,
             filePaths |-> IF w.ok THEN w.files ELSE <<>>,
             listed |-> w.listed,
             log |-> m3.log]

(***************************************************************************)
(* The commands, as commander wires them: the user's excludeFile names are *)
(* added to the default lockfile names.                                    *)
(***************************************************************************)
\* A slip: names given by the user replace the default ones.
ExcludeFilesReplaced(userExcludeFiles) ==
    IF userExcludeFiles = {} THEN DEFAULT_LOCKFILES ELSE userExcludeFiles

ExcludeFiles(userExcludeFiles) == DEFAULT_LOCKFILES \cup userExcludeFiles

Finished(cmd, r) ==
    [cmd |-> cmd, before |-> fs, exitCode |-> r.exitCode,
     filePaths |-> r.filePaths, listed |-> r.listed, log |-> r.log]

\* flatbrain flatten [directory] --excludeDir --excludeFile --toTxt
Flatten ==
    /\ Len(history) < budget
    /\ LET r == flattenProject(fs, options.excludeDir, ExcludeFiles(options.excludeFile),
                               options.toTxt)
       IN /\ fs' = r.fs
          /\ history' = Append(history, Finished("flatten", r))
    /\ UNCHANGED <<listOrder, options, budget>>

\* flatbrain concat [directory] --excludeDir --excludeFile --output
Concat ==
    /\ Len(history) < budget
    /\ LET r == concatenateFiles(fs, options.excludeDir, ExcludeFiles(options.excludeFile),
                                 options.output)
       IN /\ fs' = r.fs
          /\ history' = Append(history, Finished("concat", r))
    /\ UNCHANGED <<listOrder, options, budget>>

Next == Flatten \/ Concat

(***************************************************************************)
(* Inputs.  A file tree is grown from the bare root by adding at most      *)
(* MaxNodes entries, each below a directory of the tree; the entries (a    *)
(* name and a node), the .gitignore texts and the options come from the    *)
(* small sets of a scenario.                                               *)
(***************************************************************************)
BareRoot == <<>> :> DirNode

\* The target does not exist; the target is a regular file.
NoRoot == [p \in {} |-> DirNode]

FileRoot == <<>> :> FileNode(<<>>)

Entry(name, node) == [name |-> name, node |-> node]

Grow(t, entries) ==
    LET dirs == {q \in DOMAIN t : t[q].kind = "dir"}
        free == {x \in dirs \X entries : Join(x[1], x[2].name) \notin DOMAIN t}
    IN {(Join(x[1], x[2].name) :> x[2].node) @@ t : x \in free}

\* The trees that adding at most n of the entries to a seed tree gives.
RECURSIVE Trees(_, _, _)
Trees(n, seeds, entries) ==
    IF n = 0 THEN seeds
    ELSE LET smaller == Trees(n - 1, seeds, entries)
         IN smaller \cup UNION {Grow(t, entries) : t \in smaller}

\* The trees, each also with a .gitignore of one of the texts at its root.
WithGitignore(trees, texts) ==
    trees \cup {(GitignorePath :> FileNode(g)) @@ t : t \in trees, g \in texts}

A == <<"a">>
X_LOG == <<"x", ".", "l", "o", "g">>
HELLO == <<"h", "i">>

\* *.log
IgnoreLogs == <<"*", ".", "l", "o", "g">>
\* a/ (with a final newline)
IgnoreDirA == <<"a", "/", NL>>
\* *.log, then !a, !x.log, !yarn.lock, !flatbrain, !.git
IgnoreLogsKeepNamed ==
    IgnoreLogs \o <<NL, "!">> \o A \o <<NL, "!">> \o X_LOG \o <<NL, "!">> \o YARN_LOCK
      \o <<NL, "!">> \o FLATBRAIN \o <<NL, "!">> \o DOTGIT

Reverse(s) == [i \in 1..Len(s) |-> s[Len(s) + 1 - i]]

(***************************************************************************)
(* The exclusion scenario: directories and files named a, x.log,           *)
(* yarn.lock, flatbrain and .git, with or without a .gitignore; one        *)
(* invocation.                                                             *)
(***************************************************************************)
ExclEntries ==
    {Entry(A, DirNode), Entry(A, FileNode(HELLO)), Entry(X_LOG, FileNode(HELLO)),
     Entry(YARN_LOCK, FileNode(HELLO)), Entry(YARN_LOCK, DirNode),
     Entry(FLATBRAIN, DirNode), Entry(DOTGIT, DirNode)}

ExclOrder == <<X_LOG, FLATBRAIN, A, GITIGNORE, DOTGIT, YARN_LOCK>>

ExclTrees ==
    {NoRoot, FileRoot}
      \cup WithGitignore(Trees(MaxNodes, {BareRoot}, ExclEntries),
                         {IgnoreLogs, IgnoreDirA, IgnoreLogsKeepNamed})

ExclOptions ==
    [excludeDir : SUBSET {A}, excludeFile : SUBSET {X_LOG}, toTxt : {{}}, output : {ALL_TXT}]

Init ==
    /\ fs \in ExclTrees
    /\ options \in ExclOptions
    /\ listOrder = ExclOrder
    /\ budget = 1
    /\ history = <<>>

Spec == Init /\ [][Next]_vars

(***************************************************************************)
(* The lockfile scenario: the three default lockfiles, x.log and b, below  *)
(* the root or below a; one invocation.                                    *)
(***************************************************************************)
B == <<"b">>

LockEntries ==
    {Entry(A, DirNode), Entry(B, FileNode(HELLO)), Entry(X_LOG, FileNode(HELLO)),
     Entry(YARN_LOCK, FileNode(HELLO)), Entry(PACKAGE_LOCK_JSON, FileNode(HELLO)),
     Entry(PNPM_LOCK_YAML, FileNode(HELLO))}

LockOrder == <<PNPM_LOCK_YAML, B, A, YARN_LOCK, X_LOG, PACKAGE_LOCK_JSON>>

InitLock ==
    /\ fs \in Trees(MaxNodes, {BareRoot}, LockEntries)
    /\ options \in [excludeDir : {{}}, excludeFile : SUBSET {X_LOG}, toTxt : {{}},
                    output : {ALL_TXT}]
    /\ listOrder = LockOrder
    /\ budget = 1
    /\ history = <<>>

SpecLock == InitLock /\ [][Next]_vars

(***************************************************************************)
(* The rerun scenario: MaxRuns invocations, one after the other, over a    *)
(* tree that may hold the output of an earlier run (flatbrain/flattened    *)
(* and flatbrain/concat with a file each) and a .git directory.            *)
(***************************************************************************)
OLD_TXT == <<"o", "l", "d">>
DOT_LOG == <<".", "l", "o", "g">>

StaleRoot ==
    (<<FLATBRAIN, FLATTENED, OLD_TXT>> :> FileNode(HELLO))
      @@ (<<FLATBRAIN, FLATTENED>> :> DirNode)
      @@ (<<FLATBRAIN, CONCAT, ALL_TXT>> :> FileNode(HELLO))
      @@ (<<FLATBRAIN, CONCAT>> :> DirNode)
      @@ (<<FLATBRAIN>> :> DirNode)
      @@ BareRoot

RerunEntries ==
    {Entry(A, DirNode), Entry(B, FileNode(HELLO)), Entry(X_LOG, FileNode(<<>>)),
     Entry(DOTGIT, DirNode)}

RerunOrder == <<FLATBRAIN, X_LOG, DOTGIT, A, B>>

InitRerun ==
    /\ fs \in Trees(MaxNodes, {BareRoot, StaleRoot}, RerunEntries)
    /\ options \in [excludeDir : {{}}, excludeFile : {{}}, toTxt : SUBSET {DOT_LOG},
                    output : {ALL_TXT}]
    /\ listOrder = RerunOrder
    /\ budget = MaxRuns
    /\ history = <<>>

SpecRerun == InitRerun /\ [][Next]_vars

(***************************************************************************)
(* The naming scenario: files c.vue, c.txt, .env and one whose own name is *)
(* a^c.vue, below the root or below directories a; one invocation with a   *)
(* toTxt set drawn from .vue and .env.                                     *)
(***************************************************************************)
C_VUE == <<"c", ".", "v", "u", "e">>
C_TXT == <<"c", ".", "t", "x", "t">>
A_C_VUE == <<"a", "^", "c", ".", "v", "u", "e">>
DOT_ENV == <<".", "e", "n", "v">>
DOT_VUE == <<".", "v", "u", "e">>

RootFile == (<<C_TXT>> :> FileNode(HELLO)) @@ BareRoot

NameEntries ==
    {Entry(A, DirNode), Entry(C_VUE, FileNode(HELLO)), Entry(A_C_VUE, FileNode(<<>>)),
     Entry(DOT_ENV, FileNode(HELLO))}

NameOrder == <<A, DOT_ENV, C_VUE, A_C_VUE, C_TXT, FLATBRAIN>>

InitNames ==
    /\ fs \in Trees(MaxNodes, {BareRoot, RootFile}, NameEntries)
    /\ options \in [excludeDir : {{}}, excludeFile : {{}}, toTxt : SUBSET {DOT_VUE, DOT_ENV},
                    output : {ALL_TXT}]
    /\ listOrder = NameOrder
    /\ budget = 1
    /\ history = <<>>

SpecNames == InitNames /\ [][Next]_vars

(***************************************************************************)
(* The concat scenario: files b (no final newline), c.txt (final newline)  *)
(* and x.log (empty), below the root or below directories a, over a tree   *)
(* that may hold an earlier all.txt; one invocation, the directory listing *)
(* in one order or in the reverse one.                                     *)
(***************************************************************************)
LINE == <<"h", "i", "\n">>

ConcatEntries ==
    {Entry(A, DirNode), Entry(B, FileNode(HELLO)), Entry(C_TXT, FileNode(LINE)),
     Entry(X_LOG, FileNode(<<>>))}

ConcatOrder == <<B, A, X_LOG, C_TXT, FLATBRAIN>>

InitConcat ==
    /\ fs \in Trees(MaxNodes, {BareRoot, StaleRoot}, ConcatEntries)
    /\ options \in [excludeDir : {{}}, excludeFile : {{}}, toTxt : {{}}, output : {ALL_TXT}]
    /\ listOrder \in {ConcatOrder, Reverse(ConcatOrder)}
    /\ budget = 1
    /\ history = <<>>

SpecConcat == InitConcat /\ [][Next]_vars

(***************************************************************************)
(* The failure scenario: a directory d that cannot be listed and a file s  *)
(* that cannot be read, beside a, b and c.txt, over a tree that may hold   *)
(* earlier output, and targets that are missing or a file; the output file *)
(* is all.txt or out.  One invocation on a directory, MaxRuns on a target  *)
(* that is none and on one with d at its root.                             *)
(***************************************************************************)
D == <<"d">>
S == <<"s">>
OUT == <<"o", "u", "t">>

\* The earlier output, with a second file, out, in flatbrain/concat.
StaleBoth == (<<FLATBRAIN, CONCAT, OUT>> :> FileNode(LINE)) @@ StaleRoot

LockedDir == [DirNode EXCEPT !.readable = FALSE]

LockedFile == [FileNode(HELLO) EXCEPT !.readable = FALSE]

FailEntries ==
    {Entry(A, DirNode), Entry(D, LockedDir), Entry(B, FileNode(HELLO)), Entry(S, LockedFile),
     Entry(C_TXT, FileNode(LINE))}

FailOrder == <<B, D, A, S, C_TXT, FLATBRAIN>>

InitFail ==
    /\ fs \in {NoRoot, FileRoot} \cup Trees(MaxNodes, {BareRoot, StaleBoth}, FailEntries)
    /\ options \in [excludeDir : {{}}, excludeFile : {{}}, toTxt : {{}}, output : {ALL_TXT, OUT}]
    /\ listOrder = FailOrder
    /\ budget = IF ValidRoot(fs) /\ <<D>> \notin DOMAIN fs THEN 1 ELSE MaxRuns
    /\ history = <<>>

SpecFail == InitFail /\ [][Next]_vars

(***************************************************************************)
(* What the claims speak of.                                               *)
(***************************************************************************)
Range(s) == {s[i] : i \in DOMAIN s}

\* piece occurs in text
Occurs(text, piece) ==
    \E i \in 0..(Len(text) - Len(piece)) : SubSeq(text, i + 1, i + Len(piece)) = piece

\* The file system after invocation i.
After(i) == IF i < Len(history) THEN history[i + 1].before ELSE fs

\* The source files invocation i copied.
Copied(i) ==
    {history[i].log[k][2] : k \in {j \in DOMAIN history[i].log : history[i].log[j][1] = "copy"}}

HeaderLine(p) == <<"=", "=", "=", " ">> \o Relative(p) \o <<" ", "=", "=", "=">>

OutPath == <<FLATBRAIN, CONCAT, options.output>>

\* The output of invocation i represents the file p of the tree: flatten
\* copied it, concat wrote its header.
Represented(i, p) ==
    IF history[i].cmd = "flatten" THEN p \in Copied(i)
    ELSE /\ OutPath \in DOMAIN After(i)
         /\ Occurs(After(i)[OutPath].content, HeaderLine(p))

Walked(i) == Range(history[i].filePaths)

Structural(p) == \E k \in 1..Len(p) : p[k] = FLATBRAIN \/ p[k] = DOTGIT

\* A proper ancestor of p is a directory the user excluded by name.
UnderExcludedDir(p) == \E k \in 1..(Len(p) - 1) : p[k] \in options.excludeDir

LockfileNames == {YARN_LOCK, PACKAGE_LOCK_JSON, PNPM_LOCK_YAML}

IsFileOf(t, p) == p \in DOMAIN t /\ t[p].kind = "file"

IsDirOf(t, p) == p \in DOMAIN t /\ t[p].kind = "dir"

\* The patterns of the tree's .gitignore ignore the path p.
IgnoredIn(t, p) ==
    /\ <<GITIGNORE>> \in DOMAIN t
    /\ Ignores(Rules(Split(t[<<GITIGNORE>>].content, NL)), Relative(p))

\* C1: no path below a directory whose name is in excludeDirs is returned by
\* the walk, at any depth and whatever the descendant's own name; the
\* excluded directory is not opened, and the output of flatten and of concat
\* represents no such file.
C1_ExcludedDirSubtreeAbsent ==
    \A i \in DOMAIN history :
        \A p \in DOMAIN history[i].before :
            /\ UnderExcludedDir(p) =>
                  /\ p \notin Walked(i)
                  /\ p \notin Range(history[i].listed)
                  /\ ~Represented(i, p)
            /\ (p # <<>> /\ IsDirOf(history[i].before, p) /\ BaseName(p) \in options.excludeDir)
                  => p \notin Range(history[i].listed)

\* C1's case: a successful run over a tree with a file two levels below an
\* excluded directory, the file itself matching no exclusion.
C1_Witness ==
    \E i \in DOMAIN history :
        /\ history[i].exitCode = 0
        /\ history[i].filePaths # <<>>
        /\ \E p \in DOMAIN history[i].before :
              /\ Len(p) = 3
              /\ IsFileOf(history[i].before, p)
              /\ p[1] \in options.excludeDir
              /\ p[2] \notin options.excludeDir
              /\ BaseName(p) \notin LockfileNames \cup options.excludeFile
              /\ ~Structural(p)
              /\ ~IgnoredIn(history[i].before, p)

\* C2: with the patterns of <root>/.gitignore, a file whose root-relative
\* path the patterns ignore is absent from the walk result of flatten and of
\* concat (with *.log: every .log file at any depth), and a file that is
\* not ignored, not excluded by name, not structurally skipped and below no
\* excluded directory is in the walk result exactly once.
C2_GitignoreDecidesWalk ==
    \A i \in DOMAIN history :
        LET t == history[i].before
            r == history[i]
        IN \A p \in {q \in DOMAIN t : t[q].kind = "file"} :
              /\ IgnoredIn(t, p) => p \notin Walked(i)
              /\ (/\ <<GITIGNORE>> \in DOMAIN t
                  /\ t[<<GITIGNORE>>].content = <<"*", ".", "l", "o", "g">>
                  /\ BaseName(p) = X_LOG) => p \notin Walked(i)
              /\ (/\ r.exitCode = 0
                  /\ ~IgnoredIn(t, p)
                  /\ BaseName(p) \notin LockfileNames \cup options.excludeFile
                  /\ ~Structural(p)
                  /\ ~UnderExcludedDir(p))
                    => Cardinality({k \in DOMAIN r.filePaths : r.filePaths[k] = p}) = 1

\* C2's case: a run over a tree whose .gitignore is *.log, with an x.log
\* below a directory (ignored, absent) and another file that was walked.
C2_Witness ==
    \E i \in DOMAIN history :
        LET t == history[i].before
        IN /\ history[i].exitCode = 0
           /\ <<GITIGNORE>> \in DOMAIN t
           /\ t[<<GITIGNORE>>].content = <<"*", ".", "l", "o", "g">>
           /\ \E p \in DOMAIN t :
                 Len(p) = 2 /\ BaseName(p) = X_LOG /\ IsFileOf(t, p) /\ ~UnderExcludedDir(p)
                   /\ ~Structural(p) /\ p \notin Walked(i)
           /\ \E p \in DOMAIN t \ {<<>>} :
                 BaseName(p) = A /\ IsFileOf(t, p) /\ p \in Walked(i)

\* The last pattern of the tree's .gitignore that matches p's own path is a
\* '!' negation.
NegationMatches(t, p) ==
    /\ <<GITIGNORE>> \in DOMAIN t
    /\ LET rules == Rules(Split(t[<<GITIGNORE>>].content, NL))
           hits == {k \in DOMAIN rules : GlobMatch(rules[k].glob, BaseName(p))}
       IN hits # {} /\ rules[CHOOSE k \in hits : \A j \in hits : j <= k].negative

\* C4: an entry that is skipped structurally (named flatbrain or .git) or
\* excluded by name (a directory in excludeDirs, a file in excludeFiles) is
\* neither returned nor opened by the walk, whatever .gitignore holds, a
\* '!' pattern matching the entry's path included.
C4_NoUnexclude ==
    \A i \in DOMAIN history :
        LET t == history[i].before
        IN \A p \in DOMAIN t \ {<<>>} :
              (\/ BaseName(p) = FLATBRAIN
               \/ BaseName(p) = DOTGIT
               \/ (t[p].kind = "dir" /\ BaseName(p) \in options.excludeDir)
               \/ (t[p].kind = "file" /\ BaseName(p) \in LockfileNames \cup options.excludeFile))
              => /\ p \notin Walked(i)
                 /\ p \notin Range(history[i].listed)
                 /\ ~Represented(i, p)

\* C4's case: a successful run in which a '!' pattern of .gitignore matches
\* the path of a directory excluded by name and of a file excluded by name,
\* while a file that no rule excludes was walked.
C4_Witness ==
    \E i \in DOMAIN history :
        LET t == history[i].before
        IN /\ history[i].exitCode = 0
           /\ \E p \in DOMAIN t \ {<<>>} :
                 /\ t[p].kind = "dir" /\ BaseName(p) \in options.excludeDir
                 /\ NegationMatches(t, p)
                 /\ \E q \in DOMAIN t \ {<<>>} : Parent(q) = p
           /\ \E p \in DOMAIN t \ {<<>>} :
                 /\ t[p].kind = "file" /\ BaseName(p) \in options.excludeFile
                 /\ NegationMatches(t, p)
                 /\ ~UnderExcludedDir(p)
           /\ <<GITIGNORE>> \in Walked(i)

\* C3: for flatten and for concat, with any user-supplied excludeFile set
\* (the empty one included), no file named yarn.lock, package-lock.json or
\* pnpm-lock.yaml, at any depth, is walked or appears in the output; the
\* user's names are excluded as well (added to the default set, never
\* replacing it).
C3_LockfilesAlwaysExcluded ==
    \A i \in DOMAIN history :
        LET t == history[i].before
        IN \A p \in {q \in DOMAIN t : t[q].kind = "file"} :
              (\/ BaseName(p) \in {YARN_LOCK, PACKAGE_LOCK_JSON, PNPM_LOCK_YAML}
               \/ BaseName(p) \in options.excludeFile)
              => p \notin Walked(i) /\ ~Represented(i, p)

\* C3's case: a successful run with a user-supplied excludeFile name over a
\* tree with a lockfile below a directory, in which another file was walked.
C3_Witness ==
    \E i \in DOMAIN history :
        LET t == history[i].before
        IN /\ history[i].exitCode = 0
           /\ options.excludeFile # {}
           /\ \E p \in DOMAIN t :
                 Len(p) = 2 /\ IsFileOf(t, p) /\ BaseName(p) \in LockfileNames
           /\ <<B>> \in Walked(i)
           /\ Represented(i, <<B>>)

\* C5: in every run of flatten or concat, whatever the options and the
\* .gitignore, the walk lists no directory and returns no path that lies in
\* <root>/flatbrain (flatbrain/flattened and flatbrain/concat of an earlier
\* run included) or in a .git directory.
C5_ContainerNeverWalked ==
    \A i \in DOMAIN history :
        \A p \in Range(history[i].listed) \cup Walked(i) \cup Copied(i) :
            \A k \in 1..Len(p) : p[k] # FLATBRAIN /\ p[k] # DOTGIT

\* C5's case: the second run, over a tree that holds a file in
\* flatbrain/flattened copied by the first run, a file in flatbrain/concat
\* and a file in .git, and that walked some file.
C5_Witness ==
    /\ Len(history) >= 2
    /\ history[1].cmd = "flatten"
    /\ Copied(1) # {}
    /\ history[2].exitCode = 0
    /\ history[2].filePaths # <<>>
    /\ LET t == history[2].before
       IN /\ \E p \in DOMAIN t : Len(p) = 3 /\ Parent(p) = flattenedDir /\ p \notin DOMAIN history[1].before
          /\ \E p \in DOMAIN t : Len(p) = 3 /\ Parent(p) = concatDir
          /\ \E p \in DOMAIN t : Len(p) = 2 /\ p[1] = DOTGIT /\ IsFileOf(t, p)

\* What flatbrain/flattened holds: the names and the contents.
FlattenedOf(t) == [p \in {q \in DOMAIN t : IsPrefix(<<FLATBRAIN, FLATTENED>>, q)} |-> t[p]]

\* The destinations invocation i copied to.
CopiedTo(i) ==
    {history[i].log[k][3] : k \in {j \in DOMAIN history[i].log : history[i].log[j][1] = "copy"}}

\* C9: flatten run twice in a row on the same tree with the same options
\* leaves flatbrain/flattened with the same file names and contents as after
\* the first run: the second run walks the same files as the first, none of
\* them in the first run's output, and flatbrain/flattened holds nothing but
\* what the second run copied.
C9_FlattenTwiceSame ==
    \A i \in DOMAIN history :
        (i + 1 \in DOMAIN history /\ history[i].cmd = "flatten" /\ history[i + 1].cmd = "flatten")
        => /\ FlattenedOf(After(i + 1)) = FlattenedOf(After(i))
           /\ history[i + 1].filePaths = history[i].filePaths
           /\ history[i + 1].exitCode = history[i].exitCode
           /\ \A p \in Walked(i + 1) : ~IsPrefix(<<FLATBRAIN>>, p)
           /\ history[i + 1].exitCode = 0 =>
                 DOMAIN FlattenedOf(After(i + 1)) = {<<FLATBRAIN, FLATTENED>>} \cup CopiedTo(i + 1)

\* C9's case: two successful flatten runs in a row over a tree that held a
\* stale file in flatbrain/flattened, the first run copying a file from a
\* subdirectory and one it renamed to .txt.
C9_Witness ==
    /\ Len(history) >= 2
    /\ history[1].cmd = "flatten" /\ history[2].cmd = "flatten"
    /\ history[1].exitCode = 0 /\ history[2].exitCode = 0
    /\ <<FLATBRAIN, FLATTENED, OLD_TXT>> \in DOMAIN history[1].before
    /\ <<FLATBRAIN, FLATTENED, OLD_TXT>> \notin DOMAIN fs
    /\ \E p \in Copied(1) : Len(p) = 2
    /\ \E p \in DOMAIN fs : Parent(p) = flattenedDir /\ ExtName(BaseName(p)) = DOT_TXT

\* The copies of invocation i, as pairs <<source, destination name>>.
Copies(i) ==
    {<<history[i].log[k][2], BaseName(history[i].log[k][3])>> :
        k \in {j \in DOMAIN history[i].log : history[i].log[j][1] = "copy"}}

\* The components of p written one after the other, sep between them.
RECURSIVE Joined(_, _)
Joined(p, sep) ==
    IF Len(p) = 1 THEN p[1] ELSE p[1] \o <<sep>> \o Joined(Tail(p), sep)

\* C6: for every walked file, getFlattenedFileName gives the root-relative
\* path with every path separator replaced by '^' and no other character
\* changed; the result has no separator, a root-level file keeps its name,
\* and with an empty toTxt set that name is the one flatten copies to.
C6_FlattenedName ==
    \A i \in DOMAIN history : \A p \in Walked(i) :
        LET relative == Joined(p, SEP)
            name == getFlattenedFileName(p)
        IN /\ Len(name) = Len(relative)
           /\ \A k \in DOMAIN name :
                 name[k] = IF relative[k] = SEP THEN CARET ELSE relative[k]
           /\ name = Joined(p, CARET)
           /\ SEP \notin Range(name)
           /\ Len(p) = 1 => name = p[1]
           /\ (history[i].cmd = "flatten" /\ history[i].exitCode = 0 /\ options.toTxt = {})
                 => <<p, name>> \in Copies(i)

\* C6's case: a successful flatten with no toTxt that copied a/a/c.vue as
\* a^a^c.vue and the root file c.txt as c.txt.
C6_Witness ==
    /\ Len(history) = 1 /\ history[1].cmd = "flatten" /\ history[1].exitCode = 0
    /\ options.toTxt = {}
    /\ <<A, A, C_VUE>> \in Walked(1)
    /\ <<FLATBRAIN, FLATTENED, <<"a", "^", "a", "^", "c", ".", "v", "u", "e">>>> \in DOMAIN fs
    /\ <<C_TXT>> \in Walked(1)
    /\ <<FLATBRAIN, FLATTENED, C_TXT>> \in DOMAIN fs

\* The extension of a file name, the part from its last dot on; a name
\* with no dot, or with its only dot in front, has none.
OwnExt(name) ==
    LET dots == {k \in DOMAIN name : name[k] = DOT}
        last == CHOOSE k \in dots : \A j \in dots : j <= k
    IN IF dots = {} \/ last = 1 THEN <<>> ELSE SubSeq(name, last, Len(name))

\* C7, as the claim states it: a walked file whose extension is in the
\* toTxt set is copied to its flattened name with that extension replaced
\* by .txt, and a file whose extension is not in the set is copied to its
\* flattened name unchanged.
C7_ExtensionReplaced ==
    \A i \in DOMAIN history :
        (history[i].cmd = "flatten" /\ history[i].exitCode = 0) =>
            \A p \in Walked(i) :
                LET flat == Joined(p, CARET)
                    ext == OwnExt(p[Len(p)])
                IN IF ext \in options.toTxt
                   THEN <<p, SubSeq(flat, 1, Len(flat) - Len(ext)) \o DOT_TXT>> \in Copies(i)
                   ELSE <<p, flat>> \in Copies(i)

\* C8, as the claim states it: within one flatten run no two walked files
\* are copied to the same destination name, and flatbrain/flattened ends
\* with as many files as were walked.
C8_DestinationsDistinct ==
    \A i \in DOMAIN history :
        (history[i].cmd = "flatten" /\ history[i].exitCode = 0) =>
            /\ \A c, d \in Copies(i) : c[2] = d[2] => c[1] = d[1]
            /\ Cardinality({q \in DOMAIN After(i) : Len(q) = 3 /\ Parent(q) = flattenedDir})
                  = Len(history[i].filePaths)

\* The place of a name in the directory listing order.
Pos(name) == CHOOSE k \in DOMAIN listOrder : listOrder[k] = name

\* p comes before q in a depth-first walk that lists every directory in
\* listing order: at the first component where they differ, p's is listed
\* first.
WalkedBefore(p, q) ==
    \E d \in 1..Len(p) :
        /\ d <= Len(q)
        /\ SubSeq(p, 1, d - 1) = SubSeq(q, 1, d - 1)
        /\ p[d] # q[d]
        /\ Pos(p[d]) < Pos(q[d])

\* A newline, the header line of p, the content of p in t, and a newline
\* when the content does not end in one.
Section(t, p) ==
    LET content == t[p].content
    IN <<"\n">> \o HeaderLine(p) \o <<"\n">> \o content
         \o (IF content # <<>> /\ content[Len(content)] = "\n" THEN <<>> ELSE <<"\n">>)

RECURSIVE Sections(_, _)
Sections(t, files) ==
    IF files = <<>> THEN <<>> ELSE Section(t, Head(files)) \o Sections(t, Tail(files))

\* The concat invocations that ended with status 0.
Concats == {i \in DOMAIN history : history[i].cmd = "concat" /\ history[i].exitCode = 0}

Emitted(t, p) ==
    IF t[p].readable THEN Section(t, p)
    ELSE <<"\n">> \o HeaderLine(p) \o <<"\n">>
           \o ERROR_OPEN \o ERR_MESSAGE \o <<"]", "\n">>

RECURSIVE EmittedAll(_, _)
EmittedAll(t, files) ==
    IF files = <<>> THEN <<>> ELSE Emitted(t, Head(files)) \o EmittedAll(t, Tail(files))

\* C11: a concat whose walk returned a file that cannot be read does not
\* abort: it ends with status 0, and the output holds, for every walked file
\* in walk order, its header followed by its content, or by the line
\* '[Error reading file: <message>]' for a file that cannot be read.
C11_ReadFailureContinues ==
    \A i \in DOMAIN history :
        LET t == history[i].before
            files == history[i].filePaths
        IN (history[i].cmd = "concat" /\ \E p \in Range(files) : ~t[p].readable)
           => /\ history[i].exitCode = 0
              /\ OutPath \in DOMAIN After(i)
              /\ After(i)[OutPath].content = EmittedAll(t, files)
              /\ \A p \in Range(files) : Occurs(After(i)[OutPath].content, HeaderLine(p))

\* C11's case: a concat that walked a file it could not read and, later in
\* walk order, a file it could, and wrote the content of the later one.
C11_Witness ==
    \E i \in DOMAIN history :
        LET t == history[i].before
            files == history[i].filePaths
        IN /\ history[i].cmd = "concat"
           /\ \E j, k \in DOMAIN files :
                 /\ j < k
                 /\ ~t[files[j]].readable
                 /\ t[files[k]].content = LINE
                 /\ Occurs(After(i)[OutPath].content,
                           HeaderLine(files[j]) \o <<"\n">> \o ERROR_OPEN)
                 /\ Occurs(After(i)[OutPath].content,
                           HeaderLine(files[k]) \o <<"\n">> \o LINE)

\* The target of t is missing or is no directory.
BadTarget(t) == <<>> \notin DOMAIN t \/ t[<<>>].kind # "dir"

\* C12: on a target that does not exist or is not a directory, flatten and
\* concat end with a non-zero exit status and leave the file system as it
\* was: nothing is created, nothing is removed, no directory is listed.
C12_BadTargetNoEffect ==
    \A i \in DOMAIN history :
        BadTarget(history[i].before)
        => /\ history[i].exitCode # 0
           /\ After(i) = history[i].before
           /\ history[i].log = <<>>
           /\ history[i].listed = <<>>
           /\ history[i].filePaths = <<>>

\* C12's case: flatten and then concat, both on a target that is a file.
C12_Witness ==
    /\ Len(history) = 2
    /\ history[1].cmd = "flatten" /\ history[2].cmd = "concat"
    /\ history[1].before = FileRoot /\ history[2].before = FileRoot
    /\ history[1].exitCode = 1 /\ history[2].exitCode = 1
    /\ fs = FileRoot

\* The name flatten is to give the copy of p: the components of p joined
\* by '^', the extension of the file's name replaced by .txt when the toTxt
\* set has it.
Destination(p) ==
    LET flat == Joined(p, CARET)
        ext == OwnExt(p[Len(p)])
    IN IF ext \in options.toTxt
       THEN SubSeq(flat, 1, Len(flat) - Len(ext)) \o DOT_TXT
       ELSE flat

\* The places in the log of invocation i where call was made on path p.
Calls(i, call, p) ==
    {k \in DOMAIN history[i].log : history[i].log[k][1] = call /\ history[i].log[k][2] = p}

\* C13: in a successful flatten, flatbrain/flattened is removed when it
\* exists and created again before the first copy, so afterwards it holds
\* exactly one file per walked file, under its destination name and with
\* its content, and nothing that was there before the run.
C13_FreshFlattened ==
    \A i \in DOMAIN history :
        (history[i].cmd = "flatten" /\ history[i].exitCode = 0) =>
            LET t == history[i].before
                log == history[i].log
                made == Calls(i, "mkdir", <<FLATBRAIN, FLATTENED>>)
                removed == Calls(i, "rm", <<FLATBRAIN, FLATTENED>>)
                copies == {k \in DOMAIN log : log[k][1] = "copy"}
            IN /\ made # {}
               /\ <<FLATBRAIN, FLATTENED>> \in DOMAIN t => removed # {}
               /\ \A r \in removed : \A m \in made : r < m
               /\ \A m \in made : \A c \in copies : m < c
               /\ {q \in DOMAIN After(i) : Len(q) > 2 /\ IsPrefix(<<FLATBRAIN, FLATTENED>>, q)}
                     = {<<FLATBRAIN, FLATTENED, Destination(p)>> : p \in Walked(i)}
               /\ \A p \in Walked(i) :
                     After(i)[<<FLATBRAIN, FLATTENED, Destination(p)>>].content = t[p].content

\* C13's case: a successful flatten over a tree whose flatbrain/flattened
\* held the file old from an earlier run, that walked a file below a
\* directory and a file it renamed to .txt; afterwards old is gone.
C13_Witness ==
    \E i \in DOMAIN history :
        /\ history[i].cmd = "flatten" /\ history[i].exitCode = 0
        /\ <<FLATBRAIN, FLATTENED, OLD_TXT>> \in DOMAIN history[i].before
        /\ <<FLATBRAIN, FLATTENED, OLD_TXT>> \notin DOMAIN After(i)
        /\ \E p \in Walked(i) : Len(p) = 2
        /\ \E p \in Walked(i) : Destination(p) # Joined(p, CARET)

\* C14: a concat over a tree that has flatbrain/concat leaves every file
\* in it other than the requested output file as it was; when it ends with
\* status 0, an output file that was there before was removed before the
\* write, and the output holds this run's text and nothing else.
C14_ConcatDirKept ==
    \A i \in DOMAIN history :
        LET t == history[i].before
        IN (history[i].cmd = "concat" /\ <<FLATBRAIN, CONCAT>> \in DOMAIN t) =>
              /\ \A q \in DOMAIN t :
                    (Len(q) = 3 /\ IsPrefix(<<FLATBRAIN, CONCAT>>, q) /\ q # OutPath)
                    => (q \in DOMAIN After(i) /\ After(i)[q] = t[q])
              /\ history[i].exitCode = 0 =>
                    /\ After(i)[OutPath].content = EmittedAll(t, history[i].filePaths)
                    /\ OutPath \in DOMAIN t =>
                          \E r \in Calls(i, "rm", OutPath) :
                              \A w \in Calls(i, "write", OutPath) : r < w

\* C14's case: a successful concat that walked a file, over a tree whose
\* flatbrain/concat held a file with the output's name and another file.
C14_Witness ==
    \E i \in DOMAIN history :
        LET t == history[i].before
        IN /\ history[i].cmd = "concat" /\ history[i].exitCode = 0
           /\ history[i].filePaths # <<>>
           /\ OutPath \in DOMAIN t
           /\ t[OutPath].content # <<>>
           /\ \E q \in DOMAIN t : Len(q) = 3 /\ IsPrefix(<<FLATBRAIN, CONCAT>>, q) /\ q # OutPath
           /\ Calls(i, "write", OutPath) # {}

\* Invocation i copied p under another name than its flattened name.
Retargeted(i, p) == <<p, Joined(p, CARET)>> \notin Copies(i)

\* C15, as the claim states it: in a successful flatten, a file at root and
\* a file of the same name below a directory are both copied under a .txt
\* name or both under their flattened name.
C15_SameNameSameTreatment ==
    \A i \in DOMAIN history :
        (history[i].cmd = "flatten" /\ history[i].exitCode = 0) =>
            \A p, q \in Walked(i) :
                (Len(p) = 1 /\ Len(q) > 1 /\ q[Len(q)] = p[1])
                => (Retargeted(i, p) <=> Retargeted(i, q))

\* The directories of t the walk comes to and cannot list: every directory
\* above them can be listed and none of their components is skipped.
Unlistable(t) ==
    {u \in DOMAIN t :
        /\ t[u].kind = "dir" /\ ~t[u].readable
        /\ \A k \in 0..(Len(u) - 1) : t[SubSeq(u, 1, k)].readable
        /\ ~Structural(u)}

\* C16: when the walk comes to a directory it cannot list, the run ends
\* with a non-zero status, no directory after that one in walk order was
\* listed, flatten has copied nothing and left flatbrain/flattened empty,
\* and concat has neither written nor removed an output file.
C16_WalkFailsFast ==
    \A i \in DOMAIN history :
        LET t == history[i].before
            log == history[i].log
        IN (~BadTarget(t) /\ Unlistable(t) # {}) =>
              /\ history[i].exitCode # 0
              /\ \E u \in Unlistable(t) :
                    \A q \in Range(history[i].listed) :
                        q # u /\ (IsPrefix(q, u) \/ WalkedBefore(q, u))
              /\ \A k \in DOMAIN log : log[k][1] \notin {"copy", "write"}
              /\ history[i].cmd = "flatten" =>
                    /\ <<FLATBRAIN, FLATTENED>> \in DOMAIN After(i)
                    /\ \A q \in DOMAIN After(i) :
                          IsPrefix(<<FLATBRAIN, FLATTENED>>, q) => q = <<FLATBRAIN, FLATTENED>>
              /\ history[i].cmd = "concat" =>
                    /\ \A k \in DOMAIN log : log[k][1] # "rm"
                    /\ OutPath \in DOMAIN After(i) <=> OutPath \in DOMAIN t
                    /\ OutPath \in DOMAIN t => After(i)[OutPath] = t[OutPath]

\* C16's case: flatten and then concat over a tree with earlier output, the
\* file b, the directory d that cannot be listed and, after d in listing
\* order, the directory a: both end with status 1 having listed the root
\* only, flatbrain/flattened is empty and the earlier output file is there.
C16_Witness ==
    /\ Len(history) = 2
    /\ history[1].cmd = "flatten" /\ history[2].cmd = "concat"
    /\ history[1].exitCode = 1 /\ history[2].exitCode = 1
    /\ {<<B>>, <<D>>, <<A>>, <<FLATBRAIN, FLATTENED, OLD_TXT>>} \subseteq DOMAIN history[1].before
    /\ history[1].listed = <<<<>>>> /\ history[2].listed = <<<<>>>>
    /\ <<FLATBRAIN, FLATTENED>> \in DOMAIN fs
    /\ <<FLATBRAIN, FLATTENED, OLD_TXT>> \notin DOMAIN fs
    /\ OutPath \in DOMAIN fs

====
